---------------------------- MODULE Spec2Model ----------------------------
(***************************************************************************)
(* The scalar-operator evaluator of the MIR interpreter                    *)
(* (src/librustc_mir/interpret/operator.rs): binary_op, unary_op, the      *)
(* category evaluators and the two result writers.                         *)
(*                                                                         *)
(* A u128 / i128 accumulator is a tuple of Limbs base-256 digits, least    *)
(* significant first (an i128 is the same tuple read in two's complement), *)
(* because the 128-bit values the evaluator works on do not fit the model  *)
(* checker's native integers.                                              *)
(***************************************************************************)
EXTENDS Integers, Sequences, FiniteSets, TLC

(***************************************************************************)
(* Multi-limb words.                                                       *)
(***************************************************************************)
Base == 2^8
Limbs == 128 \div 8
\* Exact results of one operation on two 128-bit values need 257 bits.
WideLimbs == 2 * Limbs + 1

\* The tuple of the n values f[1], ..., f[n], computed once.
Tup(f, n) == SubSeq(f, 1, n)

ZeroW(n) == Tup([i \in 1..n |-> 0], n)
OnesW(n) == Tup([i \in 1..n |-> Base - 1], n)

\* The word of n limbs holding the small natural k (k < 2^31).
FromNat(k, n) ==
    Tup([i \in 1..n |-> IF i <= 3 THEN (k \div (Base^(i - 1))) % Base
                        ELSE IF i = 4 THEN k \div (Base^3) ELSE 0], n)

\* The word of n limbs holding 2^e.
Pow2W(e, n) ==
    Tup([i \in 1..n |-> IF i - 1 = e \div 8 THEN 2^(e % 8) ELSE 0], n)

\* The natural a word holds; used only on words known to be small.
RECURSIVE ToNatFrom(_, _)
ToNatFrom(a, i) == IF i > Len(a) THEN 0 ELSE a[i] + Base * ToNatFrom(a, i + 1)
ToNat(a) == ToNatFrom(a, 1)

IsZeroW(a) == \A i \in 1..Len(a) : a[i] = 0
IsNegW(a) == a[Len(a)] >= Base \div 2

\* The low k limbs of a; a extended to n limbs by zeros or by its sign.
LowW(a, k) == SubSeq(a, 1, k)
ZExtW(a, n) == Tup([i \in 1..n |-> IF i <= Len(a) THEN a[i] ELSE 0], n)
SExtW(a, n) ==
    Tup([i \in 1..n |-> IF i <= Len(a) THEN a[i]
                        ELSE IF IsNegW(a) THEN Base - 1 ELSE 0], n)

\* a + b + c limb by limb; the result has Len(a) + 1 entries, the last one
\* the carry out.
RECURSIVE AddRec(_, _, _, _)
AddRec(a, b, c, i) ==
    IF i > Len(a) THEN <<c>>
    ELSE LET s == a[i] + b[i] + c
         IN  <<s % Base>> \o AddRec(a, b, s \div Base, i + 1)

AddC(a, b, c) == AddRec(a, b, c, 1)
AddW(a, b) == LowW(AddC(a, b, 0), Len(a))
NotW(a) == Tup([i \in 1..Len(a) |-> (Base - 1) - a[i]], Len(a))
NegW(a) == LowW(AddC(NotW(a), ZeroW(Len(a)), 1), Len(a))
SubW(a, b) == LowW(AddC(a, NotW(b), 1), Len(a))
\* a - b does not borrow exactly when a + ~b + 1 carries.
BorrowW(a, b) == AddC(a, NotW(b), 1)[Len(a) + 1] = 0

\* Unsigned and two's-complement order.
RECURSIVE LtFrom(_, _, _)
LtFrom(a, b, i) ==
    IF i = 0 THEN FALSE
    ELSE IF a[i] # b[i] THEN a[i] < b[i]
    ELSE LtFrom(a, b, i - 1)

LtU(a, b) == LtFrom(a, b, Len(a))
LeU(a, b) == ~LtU(b, a)
LtS(a, b) ==
    IF IsNegW(a) # IsNegW(b) THEN IsNegW(a) ELSE LtU(a, b)
LeS(a, b) == ~LtS(b, a)

\* The low Len(a) limbs of a * b (schoolbook, column by column).
RECURSIVE ColSum(_, _, _, _)
ColSum(a, b, k, j) ==
    IF j = 0 THEN 0
    ELSE (IF a[j] = 0 \/ b[k + 1 - j] = 0 THEN 0 ELSE a[j] * b[k + 1 - j])
         + ColSum(a, b, k, j - 1)

RECURSIVE MulRec(_, _, _, _)
MulRec(a, b, c, k) ==
    IF k > Len(a) THEN <<>>
    ELSE LET s == c + ColSum(a, b, k, k)
         IN  <<s % Base>> \o MulRec(a, b, s \div Base, k + 1)

MulW(a, b) == MulRec(a, b, 0, 1)

\* The index of the highest nonzero limb of a (0 when a is zero).
RECURSIVE TopLimb(_, _)
TopLimb(a, i) == IF i = 0 THEN 0 ELSE IF a[i] # 0 THEN i ELSE TopLimb(a, i - 1)

\* Unsigned long division, one limb of the dividend at a time from the top and
\* one bit at a time within the limb: <<quotient, remainder>> of a by b, b
\* nonzero, both below 2^(8 * Len(a) - 1).
RECURSIVE DivBits(_, _, _, _, _)
DivBits(r, x, b, k, d) ==
    IF k < 0 THEN <<d, r>>
    ELSE LET r2 == LowW(AddC(r, r, (x \div 2^k) % 2), Len(r))
         IN  IF LtU(r2, b) THEN DivBits(r2, x, b, k - 1, 2 * d)
             ELSE DivBits(SubW(r2, b), x, b, k - 1, 2 * d + 1)

RECURSIVE DivRec(_, _, _, _, _)
DivRec(a, b, i, q, r) ==
    IF i = 0 THEN <<q, r>>
    ELSE LET step == DivBits(r, a[i], b, 7, 0)
         IN  DivRec(a, b, i - 1, [q EXCEPT ![i] = step[1]], step[2])

DivModU(a, b) ==
    DivRec(a, b, TopLimb(a, Len(a)), ZeroW(Len(a)), ZeroW(Len(a)))

\* Division truncated toward zero and the remainder with the dividend's sign,
\* on two's-complement words.
AbsW(a) == IF IsNegW(a) THEN NegW(a) ELSE a
DivS(a, b) ==
    LET q == DivModU(AbsW(a), AbsW(b))[1]
    IN  IF IsNegW(a) # IsNegW(b) THEN NegW(q) ELSE q
RemS(a, b) ==
    LET r == DivModU(AbsW(a), AbsW(b))[2]
    IN  IF IsNegW(a) THEN NegW(r) ELSE r

\* k mod m for a word k and a small modulus m.
RECURSIVE ModSmallFrom(_, _, _, _)
ModSmallFrom(a, m, i, acc) ==
    IF i = 0 THEN acc ELSE ModSmallFrom(a, m, i - 1, (acc * Base + a[i]) % m)
ModSmall(a, m) == ModSmallFrom(a, m, Len(a), 0)

\* Shifts of a word by s bits, 0 <= s < 8 * Len(a). The vacated positions of a
\* right shift are filled with the limb `fill` (0, or 255 for a negative i128).
ShlW(a, s) ==
    LET q == s \div 8
        b == s % 8
        at(i) == IF i >= 1 THEN a[i] ELSE 0
    IN  Tup([i \in 1..Len(a) |->
                ((at(i - q) * 2^b) % Base) + (at(i - q - 1) \div 2^(8 - b))],
            Len(a))
ShrFillW(a, s, fill) ==
    LET q == s \div 8
        b == s % 8
        at(i) == IF i <= Len(a) THEN a[i] ELSE fill
    IN  Tup([i \in 1..Len(a) |->
                (at(i + q) \div 2^b) + ((at(i + q + 1) * 2^(8 - b)) % Base)],
            Len(a))
LShrW(a, s) == ShrFillW(a, s, 0)
AShrW(a, s) == ShrFillW(a, s, IF IsNegW(a) THEN Base - 1 ELSE 0)

\* Bitwise operators limb by limb.
RECURSIVE BitOp(_, _, _, _)
BitOp(f(_, _), x, y, n) ==
    IF n = 0 THEN 0
    ELSE f(x % 2, y % 2) + 2 * BitOp(f, x \div 2, y \div 2, n - 1)
And1(x, y) == x * y
Or1(x, y) == x + y - x * y
Xor1(x, y) == (x + y) % 2
AndW(a, b) == Tup([i \in 1..Len(a) |-> BitOp(And1, a[i], b[i], 8)], Len(a))
OrW(a, b) == Tup([i \in 1..Len(a) |-> BitOp(Or1, a[i], b[i], 8)], Len(a))
XorW(a, b) == Tup([i \in 1..Len(a) |-> BitOp(Xor1, a[i], b[i], 8)], Len(a))

(***************************************************************************)
(* Types, layouts and scalars.                                             *)
(***************************************************************************)
IntBits == {8, 16, 32, 64, 128}

\* TyLayout: the type identity (ty), its category (ty.sty), size in bytes and
\* abi.is_signed().
IntLayout(signed, bits) ==
    [ty |-> <<IF signed THEN "i" ELSE "u", bits>>, sty |-> "Int",
     size |-> bits \div 8, signed |-> signed]
FloatLayout(bits) ==
    [ty |-> <<"f", bits>>, sty |-> "Float", size |-> bits \div 8,
     signed |-> FALSE]
BoolLayout == [ty |-> <<"bool", 8>>, sty |-> "Bool", size |-> 1, signed |-> FALSE]
CharLayout == [ty |-> <<"char", 32>>, sty |-> "Char", size |-> 4, signed |-> FALSE]

IntLayouts == {IntLayout(s, b) : s \in BOOLEAN, b \in IntBits}
FloatLayouts == {FloatLayout(32), FloatLayout(64)}

SizeBits(layout) == layout.size * 8

\* Scalar::Bits { bits, size }, and the boolean and character scalars.
Bits(b, size) == [tag |-> "Bits", bits |-> b, size |-> size]
from_bool(b) ==
    [tag |-> "Bool", bits |-> FromNat(IF b THEN 1 ELSE 0, Limbs), size |-> 1]
from_char(c) == [tag |-> "Char", bits |-> FromNat(c, Limbs), size |-> 4]
to_bool(s) == s.bits[1] = 1
to_char(s) == ToNat(LowW(s.bits, 3))
to_bits(s) == s.bits
NoScalar == [tag |-> "None", bits |-> ZeroW(Limbs), size |-> 0]

\* EvalResult<(Scalar, bool)>: Ok((val, oflo)), Err(kind), or the abort of a
\* bug!() or a failed assert!().
Ok(val, oflo) == [kind |-> "Ok", val |-> val, oflo |-> oflo, err |-> "none"]
Err(e) == [kind |-> "Err", val |-> NoScalar, oflo |-> FALSE, err |-> e]
Abort(why) == [kind |-> "Abort", val |-> NoScalar, oflo |-> FALSE, err |-> why]

\* truncate: mask a value down to the layout's declared width.
truncate(value, layout) ==
    LET shift == 128 - SizeBits(layout)
    IN  LShrW(ShlW(value, shift), shift)

\* sign_extend: the value of the layout's width as a full-width signed integer.
sign_extend(value, layout) ==
    LET shift == 128 - SizeBits(layout)
    IN  AShrW(ShlW(value, shift), shift)

(***************************************************************************)
(* The wide primitives of u128 and i128.                                   *)
(***************************************************************************)
I128Min == Pow2W(127, Limbs)
MinusOne == OnesW(Limbs)

u128_overflowing_add(a, b) ==
    LET s == AddC(a, b, 0) IN <<LowW(s, Limbs), s[Limbs + 1] = 1>>
u128_overflowing_sub(a, b) == <<SubW(a, b), BorrowW(a, b)>>
u128_overflowing_mul(a, b) ==
    LET exact == MulW(ZExtW(a, 2 * Limbs), ZExtW(b, 2 * Limbs))
        res == LowW(exact, Limbs)
    IN  <<res, ZExtW(res, 2 * Limbs) # exact>>
u128_overflowing_div(a, b) ==
    <<LowW(DivModU(ZExtW(a, Limbs + 1), ZExtW(b, Limbs + 1))[1], Limbs), FALSE>>
u128_overflowing_rem(a, b) ==
    <<LowW(DivModU(ZExtW(a, Limbs + 1), ZExtW(b, Limbs + 1))[2], Limbs), FALSE>>

i128_overflowing_add(a, b) ==
    LET res == AddW(a, b)
    IN  <<res, IsNegW(a) = IsNegW(b) /\ IsNegW(res) # IsNegW(a)>>
i128_overflowing_sub(a, b) ==
    LET res == SubW(a, b)
    IN  <<res, IsNegW(a) # IsNegW(b) /\ IsNegW(res) # IsNegW(a)>>
i128_overflowing_mul(a, b) ==
    LET exact == MulW(SExtW(a, 2 * Limbs), SExtW(b, 2 * Limbs))
        res == LowW(exact, Limbs)
    IN  <<res, SExtW(res, 2 * Limbs) # exact>>
i128_overflowing_div(a, b) ==
    IF a = I128Min /\ b = MinusOne THEN <<a, TRUE>>
    ELSE <<LowW(DivS(SExtW(a, Limbs + 1), SExtW(b, Limbs + 1)), Limbs), FALSE>>
i128_overflowing_rem(a, b) ==
    IF a = I128Min /\ b = MinusOne THEN <<ZeroW(Limbs), TRUE>>
    ELSE <<LowW(RemS(SExtW(a, Limbs + 1), SExtW(b, Limbs + 1)), Limbs), FALSE>>

(***************************************************************************)
(* Operators.                                                              *)
(***************************************************************************)
Comparisons == {"Eq", "Ne", "Lt", "Le", "Gt", "Ge"}
Orderings == {"Lt", "Le", "Gt", "Ge"}
Arith == {"Add", "Sub", "Mul", "Div", "Rem"}
Bitwise == {"BitAnd", "BitOr", "BitXor"}
Shifts == {"Shl", "Shr"}
\* mir::BinOp; Offset is the variant the catch-all arms of the integer
\* evaluator are left with.
BinOps == Comparisons \cup Arith \cup Bitwise \cup Shifts \cup {"Offset"}
UnOps == {"Not", "Neg"}

\* l == r, l < r, ... on naturals (characters) and on booleans (false < true).
CompareNat(bin_op, l, r) ==
    CASE bin_op = "Eq" -> l = r
      [] bin_op = "Ne" -> l # r
      [] bin_op = "Lt" -> l < r
      [] bin_op = "Le" -> l <= r
      [] bin_op = "Gt" -> l > r
      [] bin_op = "Ge" -> l >= r

binary_char_op(bin_op, l, r) ==
    IF bin_op \in Comparisons
    THEN Ok(from_bool(CompareNat(bin_op, l, r)), FALSE)
    ELSE Abort("Invalid operation on char")

binary_bool_op(bin_op, l, r) ==
    LET n(b) == IF b THEN 1 ELSE 0
    IN  IF bin_op \in Comparisons
        THEN Ok(from_bool(CompareNat(bin_op, n(l), n(r))), FALSE)
        ELSE CASE bin_op = "BitAnd" -> Ok(from_bool(l /\ r), FALSE)
               [] bin_op = "BitOr" -> Ok(from_bool(l \/ r), FALSE)
               [] bin_op = "BitXor" -> Ok(from_bool(l # r), FALSE)
               [] OTHER -> Abort("Invalid operation on bool")

\* binary_float_op answering an operator outside its table with Unimplemented.
binary_float_op_unimplemented(bin_op, fty, l, r, apfloat) ==
    LET size == IF fty = 32 THEN 4 ELSE 8
    IN  IF bin_op \in Comparisons THEN Ok(from_bool(apfloat.cmp), FALSE)
        ELSE IF bin_op \in Arith THEN Ok(Bits(apfloat.bits, size), FALSE)
        ELSE Err("Unimplemented")

\* The float evaluator. The IEEE-754 library's answer (apfloat.cmp for a
\* comparison, apfloat.bits for the re-encoded result of an arithmetic
\* operator) is an input of the call.
binary_float_op(bin_op, fty, l, r, apfloat) ==
    LET size == IF fty = 32 THEN 4 ELSE 8
    IN  IF bin_op \in Comparisons THEN Ok(from_bool(apfloat.cmp), FALSE)
        ELSE IF bin_op \in Arith THEN Ok(Bits(apfloat.bits, size), FALSE)
        ELSE Abort("invalid float op")

\* ShiftAmount with `r > size.bits()` for `r >= size.bits()`.
ShiftAmount_gt(r, left_layout) ==
    LET r32 == LowW(r, 4)
        oflo0 == ZExtW(r32, Limbs) # r
        bits == SizeBits(left_layout)
        oflo == oflo0 \/ LtU(FromNat(bits, 4), r32)
    IN  [r |-> IF oflo THEN ModSmall(r32, bits) ELSE ToNat(r32), oflo |-> oflo]

\* Lines 149-155: the shift amount applied and the overflow flag, from the raw
\* right operand.
ShiftAmount(r, left_layout) ==
    LET r32 == LowW(r, 4)
        oflo0 == ZExtW(r32, Limbs) # r
        bits == SizeBits(left_layout)
        oflo == oflo0 \/ ~LtU(r32, FromNat(bits, 4))
    IN  [r |-> IF oflo THEN ModSmall(r32, bits) ELSE ToNat(r32), oflo |-> oflo]

\* ShiftOp shifting the raw pattern of a signed left operand, without
\* sign_extend.
ShiftOp_logical(bin_op, l, left_layout, r) ==
    LET sh == ShiftAmount(r, left_layout)
        result == IF bin_op = "Shl" THEN ShlW(l, sh.r) ELSE LShrW(l, sh.r)
    IN  Ok(Bits(truncate(result, left_layout), left_layout.size), sh.oflo)

\* Lines 147-176.
ShiftOp(bin_op, l, left_layout, r) ==
    LET sh == ShiftAmount(r, left_layout)
        result ==
            IF left_layout.signed
            THEN LET l2 == sign_extend(l, left_layout)
                 IN  IF bin_op = "Shl" THEN ShlW(l2, sh.r) ELSE AShrW(l2, sh.r)
            ELSE IF bin_op = "Shl" THEN ShlW(l, sh.r) ELSE LShrW(l, sh.r)
    IN  Ok(Bits(truncate(result, left_layout), left_layout.size), sh.oflo)

\* Lines 252-254 of the signed branch: the ordering comparisons.
SignedOrdering(bin_op, l, r) ==
    CASE bin_op = "Lt" -> LtS(l, r)
      [] bin_op = "Le" -> LeS(l, r)
      [] bin_op = "Gt" -> LtS(r, l)
      [] bin_op = "Ge" -> LeS(r, l)

SignedWideOp(bin_op, l, r) ==
    CASE bin_op = "Div" -> i128_overflowing_div(l, r)
      [] bin_op = "Rem" -> i128_overflowing_rem(l, r)
      [] bin_op = "Add" -> i128_overflowing_add(l, r)
      [] bin_op = "Sub" -> i128_overflowing_sub(l, r)
      [] bin_op = "Mul" -> i128_overflowing_mul(l, r)

\* SignedOverflow with `result > max` for `result >= max`.
SignedOverflow_gt(result, oflo, size_bits) ==
    IF ~oflo /\ size_bits # 128
    THEN LET max == Pow2W(size_bits - 1, Limbs)
         IN  LtS(max, result) \/ LtS(result, NegW(max))
    ELSE oflo

\* Lines 231-234: the overflow flag of a signed result.
SignedOverflow(result, oflo, size_bits) ==
    IF ~oflo /\ size_bits # 128
    THEN LET max == Pow2W(size_bits - 1, Limbs)
         IN  LeS(max, result) \/ LtS(result, NegW(max))
    ELSE oflo

\* SignedArith without the int_min / -1 case.
SignedArith_no_min_case(bin_op, l, left_layout, r, right_layout) ==
    LET l128 == sign_extend(l, left_layout)
        r128 == sign_extend(r, right_layout)
        bits == SizeBits(left_layout)
        res == SignedWideOp(bin_op, l128, r128)
        oflo == SignedOverflow(res[1], res[2], bits)
    IN  Ok(Bits(truncate(res[1], left_layout), left_layout.size), oflo)

\* SignedArith dividing by the raw right operand, without sign_extend.
SignedArith_raw_r(bin_op, l, left_layout, r, right_layout) ==
    LET l128 == sign_extend(l, left_layout)
        bits == SizeBits(left_layout)
    IN  IF bin_op \in {"Rem", "Div"} /\ r = MinusOne
           /\ l = Pow2W(bits - 1, Limbs)
        THEN Ok(Bits(l, left_layout.size), TRUE)
        ELSE LET res == SignedWideOp(bin_op, l128, r)
                 oflo == SignedOverflow(res[1], res[2], bits)
             IN  Ok(Bits(truncate(res[1], left_layout), left_layout.size), oflo)

\* Lines 215-241: signed Add, Sub, Mul, Div, Rem with a nonzero divisor.
SignedArith(bin_op, l, left_layout, r, right_layout) ==
    LET l128 == sign_extend(l, left_layout)
        r128 == sign_extend(r, right_layout)
        bits == SizeBits(left_layout)
    IN  IF bin_op \in {"Rem", "Div"} /\ r128 = MinusOne
           /\ l = Pow2W(bits - 1, Limbs)
        THEN Ok(Bits(l, left_layout.size), TRUE)
        ELSE LET res == SignedWideOp(bin_op, l128, r128)
                 oflo == SignedOverflow(res[1], res[2], bits)
             IN  Ok(Bits(truncate(res[1], left_layout), left_layout.size), oflo)

UnsignedWideOp(bin_op, l, r) ==
    CASE bin_op = "Add" -> u128_overflowing_add(l, r)
      [] bin_op = "Sub" -> u128_overflowing_sub(l, r)
      [] bin_op = "Mul" -> u128_overflowing_mul(l, r)
      [] bin_op = "Div" -> u128_overflowing_div(l, r)
      [] bin_op = "Rem" -> u128_overflowing_rem(l, r)

\* UnsignedArith returning the wide result without truncate.
UnsignedArith_untruncated(bin_op, l, left_layout, r) ==
    IF bin_op = "Div" /\ IsZeroW(r) THEN Err("DivisionByZero")
    ELSE IF bin_op = "Rem" /\ IsZeroW(r) THEN Err("RemainderByZero")
    ELSE LET res == UnsignedWideOp(bin_op, l, r)
         IN  Ok(Bits(res[1], left_layout.size),
                res[2] \/ truncate(res[1], left_layout) # res[1])

\* Lines 260-277.
UnsignedArith(bin_op, l, left_layout, r) ==
    IF bin_op = "Div" /\ IsZeroW(r) THEN Err("DivisionByZero")
    ELSE IF bin_op = "Rem" /\ IsZeroW(r) THEN Err("RemainderByZero")
    ELSE LET res == UnsignedWideOp(bin_op, l, r)
             truncated == truncate(res[1], left_layout)
         IN  Ok(Bits(truncated, left_layout.size),
                res[2] \/ truncated # res[1])

\* Lines 244-291: what is left after the signed special cases.
PlainIntOp(bin_op, l, left_layout, r) ==
    LET size == left_layout.size
    IN  CASE bin_op = "Eq" -> Ok(from_bool(l = r), FALSE)
          [] bin_op = "Ne" -> Ok(from_bool(l # r), FALSE)
          [] bin_op = "Lt" -> Ok(from_bool(LtU(l, r)), FALSE)
          [] bin_op = "Le" -> Ok(from_bool(LeU(l, r)), FALSE)
          [] bin_op = "Gt" -> Ok(from_bool(LtU(r, l)), FALSE)
          [] bin_op = "Ge" -> Ok(from_bool(LeU(r, l)), FALSE)
          [] bin_op = "BitOr" -> Ok(Bits(OrW(l, r), size), FALSE)
          [] bin_op = "BitAnd" -> Ok(Bits(AndW(l, r), size), FALSE)
          [] bin_op = "BitXor" -> Ok(Bits(XorW(l, r), size), FALSE)
          [] bin_op \in Arith -> UnsignedArith(bin_op, l, left_layout, r)
          [] OTHER -> Err("Unimplemented")

\* Lines 192-242: the signed special cases, falling through to the rest.
SignedIntOp(bin_op, l, left_layout, r, right_layout) ==
    IF bin_op \in Orderings
    THEN Ok(from_bool(SignedOrdering(bin_op, sign_extend(l, left_layout),
                                     sign_extend(r, right_layout))), FALSE)
    ELSE IF bin_op = "Div" /\ IsZeroW(r) THEN Err("DivisionByZero")
    ELSE IF bin_op = "Rem" /\ IsZeroW(r) THEN Err("RemainderByZero")
    ELSE IF bin_op \in Arith
    THEN SignedArith(bin_op, l, left_layout, r, right_layout)
    ELSE PlainIntOp(bin_op, l, left_layout, r)

\* binary_int_op rejecting a zero divisor before it compares the types.
binary_int_op_zero_first(bin_op, l, left_layout, r, right_layout) ==
    IF bin_op \in Shifts THEN ShiftOp(bin_op, l, left_layout, r)
    ELSE IF bin_op = "Div" /\ IsZeroW(r) THEN Err("DivisionByZero")
    ELSE IF bin_op = "Rem" /\ IsZeroW(r) THEN Err("RemainderByZero")
    ELSE IF left_layout.ty # right_layout.ty THEN Err("Unimplemented")
    ELSE IF left_layout.signed
    THEN SignedIntOp(bin_op, l, left_layout, r, right_layout)
    ELSE PlainIntOp(bin_op, l, left_layout, r)

\* Lines 135-292.
binary_int_op(bin_op, l, left_layout, r, right_layout) ==
    IF bin_op \in Shifts THEN ShiftOp(bin_op, l, left_layout, r)
    ELSE IF left_layout.ty # right_layout.ty THEN Err("Unimplemented")
    ELSE IF left_layout.signed
    THEN SignedIntOp(bin_op, l, left_layout, r, right_layout)
    ELSE PlainIntOp(bin_op, l, left_layout, r)

\* Lines 295-346. left and right are ValTy: [value, layout]; hook is what
\* M::try_ptr_op answers and apfloat what the IEEE-754 library answers.
binary_op(bin_op, left, right, hook, apfloat) ==
    CASE left.layout.sty = "Char" ->
            IF left.layout.ty # right.layout.ty THEN Abort("assert_eq")
            ELSE binary_char_op(bin_op, to_char(left.value), to_char(right.value))
      [] left.layout.sty = "Bool" ->
            IF left.layout.ty # right.layout.ty THEN Abort("assert_eq")
            ELSE binary_bool_op(bin_op, to_bool(left.value), to_bool(right.value))
      [] left.layout.sty = "Float" ->
            IF left.layout.ty # right.layout.ty THEN Abort("assert_eq")
            ELSE binary_float_op(bin_op, left.layout.ty[2], to_bits(left.value),
                                 to_bits(right.value), apfloat)
      [] OTHER ->
            IF left.layout.sty # "Int" \/ right.layout.sty # "Int"
            THEN Abort("assert")
            ELSE IF hook.kind # "None" THEN hook
            ELSE binary_int_op(bin_op, to_bits(left.value), left.layout,
                               to_bits(right.value), right.layout)

\* Line 385: -(val as i128). Negating the minimum of i128 overflows: the build
\* with overflow checks aborts there, the build without them wraps.
NegI128(val, overflow_checks) ==
    IF val = I128Min /\ overflow_checks THEN Abort("attempt to negate with overflow")
    ELSE Ok(Bits(NegW(val), Limbs), FALSE)

\* -Single::from_bits(val), -Double::from_bits(val): the sign bit flipped.
FloatNeg(val, bits) == XorW(val, Pow2W(bits - 1, Limbs))

\* Lines 348-395; the result is Ok(value, FALSE), an error or an abort.
unary_op(un_op, val, layout, overflow_checks) ==
    CASE layout.sty = "Bool" ->
            IF un_op = "Not" THEN Ok(from_bool(~to_bool(val)), FALSE)
            ELSE Abort("Invalid bool op")
      [] layout.sty = "Float" ->
            IF un_op = "Neg"
            THEN Ok(Bits(FloatNeg(to_bits(val), SizeBits(layout)), layout.size),
                    FALSE)
            ELSE Abort("Invalid float op")
      [] OTHER ->
            IF layout.sty # "Int" THEN Abort("assert")
            ELSE IF un_op = "Not"
            THEN Ok(Bits(truncate(NotW(to_bits(val)), layout), layout.size), FALSE)
            ELSE IF ~layout.signed THEN Abort("assert")
            ELSE LET res == NegI128(to_bits(val), overflow_checks)
                 IN  IF res.kind # "Ok" THEN res
                     ELSE Ok(Bits(truncate(res.val.bits, layout), layout.size),
                             FALSE)


(***************************************************************************)
(* The calls the evaluator is given.                                       *)
(***************************************************************************)
\* How far from 0, from the sign boundary and from the all-ones pattern the
\* sampled operands of each width reach.
Near == 1

MaskW(bits) == LShrW(OnesW(Limbs), 128 - bits)

\* Bit patterns of the given width: k above 0, k below all ones, k above the
\* minimum value 2^(bits-1), k below the largest positive value, and the square
\* root of 2^bits.
Sample(bits, p) ==
    CASE p[1] = "zero" -> FromNat(p[2], Limbs)
      [] p[1] = "ones" -> SubW(MaskW(bits), FromNat(p[2], Limbs))
      [] p[1] = "min" -> AddW(Pow2W(bits - 1, Limbs), FromNat(p[2], Limbs))
      [] p[1] = "max" -> SubW(Pow2W(bits - 1, Limbs), FromNat(p[2] + 1, Limbs))
      [] p[1] = "sqrt" -> Pow2W(bits \div 2, Limbs)
SamplePoints ==
    ({"zero", "ones", "min", "max"} \X (0..Near)) \cup {<<"sqrt", 0>>}

\* Right operands of a shift: k above 0, around the left operand's bit width
\* lbits, 40, all ones of the right operand's width, k above 2^32, 2^32 plus
\* about the left operand's bit width, k below 2^32.
ShiftSample(lbits, rbits, p) ==
    CASE p[1] = "zero" -> FromNat(p[2], Limbs)
      [] p[1] = "width" -> FromNat(lbits - 1 - Near + p[2], Limbs)
      [] p[1] = "forty" -> FromNat(40, Limbs)
      [] p[1] = "ones" -> MaskW(rbits)
      [] p[1] = "two32" -> AddW(Pow2W(32, Limbs), FromNat(p[2], Limbs))
      [] p[1] = "two32width" ->
            AddW(Pow2W(32, Limbs), FromNat(lbits - 1 + p[2], Limbs))
      [] p[1] = "below32" -> SubW(Pow2W(32, Limbs), FromNat(p[2] + 1, Limbs))
ShiftPoints ==
    ({"zero", "two32", "below32"} \X (0..Near))
    \cup ({"width"} \X (0..(2 * Near + 1)))
    \cup ({"two32width"} \X (0..1))
    \cup {<<"forty", 0>>, <<"ones", 0>>}

\* Bit patterns of floats: 0.0, 1.0, -1.0, infinity, a NaN.
FloatSamples(bits) ==
    IF bits = 32
    THEN {ZeroW(Limbs), <<0, 0, 128, 63>> \o ZeroW(Limbs - 4),
          <<0, 0, 128, 191>> \o ZeroW(Limbs - 4),
          <<0, 0, 192, 127>> \o ZeroW(Limbs - 4)}
    ELSE {ZeroW(Limbs), <<0, 0, 0, 0, 0, 0, 240, 63>> \o ZeroW(Limbs - 8),
          <<0, 0, 0, 0, 0, 0, 240, 191>> \o ZeroW(Limbs - 8),
          <<0, 0, 0, 0, 0, 0, 248, 127>> \o ZeroW(Limbs - 8)}

ValTy(value, layout) == [value |-> value, layout |-> layout]
IntVal(b, layout) == ValTy(Bits(b, layout.size), layout)

\* What M::try_ptr_op may answer: Ok(None), Ok(Some(handled)) or an error.
HookNone == [kind |-> "None", val |-> NoScalar, oflo |-> FALSE, err |-> "none"]
HookAnswers == {HookNone, Ok(from_bool(TRUE), FALSE), Err("MachineError")}

\* What the IEEE-754 library may answer.
NoFloat == [cmp |-> FALSE, bits |-> ZeroW(Limbs)]
FloatAnswers(bits) ==
    {[cmp |-> c, bits |-> b] : c \in BOOLEAN, b \in FloatSamples(bits)}

BinaryCall(bin_op, left, right, hook, apfloat) ==
    [fn |-> "binary", op |-> bin_op, left |-> left, right |-> right,
     hook |-> hook, apfloat |-> apfloat, overflow_checks |-> FALSE]
UnaryCall(un_op, val, overflow_checks) ==
    [fn |-> "unary", op |-> un_op, left |-> val, right |-> val,
     hook |-> HookNone, apfloat |-> NoFloat, overflow_checks |-> overflow_checks]

(***************************************************************************)
(* The state: the call being made, where it stands, binary_op's or         *)
(* unary_op's answer, the destination place and what the entry point       *)
(* returned.                                                               *)
(***************************************************************************)
VARIABLES call, pc, result, dest, ret
vars == <<call, pc, result, dest, ret>>

\* Value::Scalar and Value::ScalarPair, and a place nothing was written to.
Scalar(a) == [kind |-> "Scalar", a |-> a, b |-> NoScalar]
ScalarPair(a, b) == [kind |-> "ScalarPair", a |-> a, b |-> b]
Unwritten == [kind |-> "Unwritten", a |-> NoScalar, b |-> NoScalar]

NoResult == [kind |-> "None", val |-> NoScalar, oflo |-> FALSE, err |-> "none"]

\* A call comes with nothing computed and nothing written yet.
Fresh ==
    /\ pc = "call"
    /\ result = NoResult
    /\ dest = Unwritten
    /\ ret = "none"

\* A valid bit pattern of the layout's width.
ValidBits(b, layout) == truncate(b, layout) = b

\* Integer operands of one type, for the operators of ops (no shifts).
SameTypeCalls(ops) ==
    \E op \in ops, lay \in IntLayouts, p \in SamplePoints, q \in SamplePoints :
        call = BinaryCall(op, IntVal(Sample(SizeBits(lay), p), lay),
                          IntVal(Sample(SizeBits(lay), q), lay), HookNone, NoFloat)

\* Shifts: the right operand has a layout of its own.
ShiftRightLayouts ==
    {IntLayout(FALSE, 8), IntLayout(TRUE, 32), IntLayout(FALSE, 64),
     IntLayout(TRUE, 128)}
ShiftCalls ==
    \E op \in Shifts, lay \in IntLayouts, rlay \in ShiftRightLayouts,
       p \in SamplePoints, q \in ShiftPoints :
        LET r == ShiftSample(SizeBits(lay), SizeBits(rlay), q)
        IN  /\ ValidBits(r, rlay)
            /\ call = BinaryCall(op, IntVal(Sample(SizeBits(lay), p), lay),
                                 IntVal(r, rlay), HookNone, NoFloat)

\* Integer operands of two different types, for the operators of ops.
MixedPairs ==
    {<<IntLayout(TRUE, 32), IntLayout(FALSE, 32)>>,
     <<IntLayout(FALSE, 8), IntLayout(FALSE, 16)>>,
     <<IntLayout(TRUE, 128), IntLayout(TRUE, 64)>>}
MixedCalls(ops) ==
    \E op \in ops, lays \in MixedPairs, l \in {1, 128}, r \in 0..Near :
        call = BinaryCall(op, IntVal(FromNat(l, Limbs), lays[1]),
                          IntVal(FromNat(r, Limbs), lays[2]), HookNone, NoFloat)

\* Integer operands the pointer hook answers for.
HookCalls ==
    \E op \in {"Eq", "Div", "Offset"}, hook \in HookAnswers \ {HookNone} :
        call = BinaryCall(op, IntVal(FromNat(1, Limbs), IntLayout(FALSE, 64)),
                          IntVal(ZeroW(Limbs), IntLayout(FALSE, 64)), hook, NoFloat)

\* Float, boolean and character operands, every operator.
FloatCalls ==
    \E op \in BinOps, lay \in FloatLayouts :
        \E l \in FloatSamples(SizeBits(lay)), fp \in FloatAnswers(SizeBits(lay)) :
            call = BinaryCall(op, IntVal(l, lay), IntVal(ZeroW(Limbs), lay),
                              HookNone, fp)
BoolCalls ==
    \E op \in BinOps, l \in BOOLEAN, r \in BOOLEAN :
        call = BinaryCall(op, ValTy(from_bool(l), BoolLayout),
                          ValTy(from_bool(r), BoolLayout), HookNone, NoFloat)
CharCalls ==
    \E op \in BinOps, l \in {97, 955}, r \in {97, 955} :
        call = BinaryCall(op, ValTy(from_char(l), CharLayout),
                          ValTy(from_char(r), CharLayout), HookNone, NoFloat)

\* Operands of two different categories.
CategoryPairs ==
    {<<IntVal(FromNat(1, Limbs), IntLayout(FALSE, 8)),
       ValTy(from_bool(TRUE), BoolLayout)>>,
     <<ValTy(from_bool(TRUE), BoolLayout),
       IntVal(FromNat(1, Limbs), IntLayout(FALSE, 8))>>,
     <<IntVal(ZeroW(Limbs), FloatLayout(32)),
       IntVal(ZeroW(Limbs), IntLayout(TRUE, 32))>>,
     <<ValTy(from_char(97), CharLayout),
       IntVal(FromNat(97, Limbs), IntLayout(FALSE, 32))>>}
CategoryCalls ==
    \E op \in {"Eq", "Add", "BitAnd", "Shl"}, vals \in CategoryPairs :
        call = BinaryCall(op, vals[1], vals[2], HookNone, NoFloat)

\* unary_op on every layout, in a build with and without overflow checks.
UnaryCalls ==
    \/ \E op \in UnOps, lay \in IntLayouts, p \in SamplePoints, oc \in BOOLEAN :
            call = UnaryCall(op, IntVal(Sample(SizeBits(lay), p), lay), oc)
    \/ \E op \in UnOps, lay \in FloatLayouts :
            \E v \in FloatSamples(SizeBits(lay)) :
                call = UnaryCall(op, IntVal(v, lay), FALSE)
    \/ \E op \in UnOps, b \in BOOLEAN :
            call = UnaryCall(op, ValTy(from_bool(b), BoolLayout), FALSE)
    \/ \E op \in UnOps : call = UnaryCall(op, ValTy(from_char(97), CharLayout), FALSE)

Init ==
    /\ \/ SameTypeCalls(BinOps \ Shifts)
       \/ ShiftCalls
       \/ MixedCalls(BinOps \ Shifts)
       \/ HookCalls
       \/ FloatCalls
       \/ BoolCalls
       \/ CharCalls
       \/ CategoryCalls
       \/ UnaryCalls
    /\ Fresh

\* What an entry point returns for binary_op's answer: Ok(()), the error, or
\* the abort.
Returned(res) == IF res.kind = "Ok" THEN "Ok" ELSE res.err

\* binop_with_overflow writing the flag first.
binop_with_overflow_flag_first ==
    /\ pc = "call" /\ call.fn = "binary"
    /\ result' = binary_op(call.op, call.left, call.right, call.hook,
                           call.apfloat)
    /\ dest' = IF result'.kind = "Ok"
               THEN ScalarPair(from_bool(result'.oflo), result'.val)
               ELSE dest
    /\ ret' = Returned(result')
    /\ pc' = "binop_with_overflow"
    /\ UNCHANGED call

\* Lines 22-34.
binop_with_overflow ==
    /\ pc = "call" /\ call.fn = "binary"
    /\ result' = binary_op(call.op, call.left, call.right, call.hook,
                           call.apfloat)
    /\ dest' = IF result'.kind = "Ok"
               THEN ScalarPair(result'.val, from_bool(result'.oflo))
               ELSE dest
    /\ ret' = Returned(result')
    /\ pc' = "binop_with_overflow"
    /\ UNCHANGED call

\* Lines 36-47.
binop_ignore_overflow ==
    /\ pc = "call" /\ call.fn = "binary"
    /\ result' = binary_op(call.op, call.left, call.right, call.hook,
                           call.apfloat)
    /\ dest' = IF result'.kind = "Ok" THEN Scalar(result'.val) ELSE dest
    /\ ret' = Returned(result')
    /\ pc' = "binop_ignore_overflow"
    /\ UNCHANGED call

BinaryOp ==
    /\ pc = "call" /\ call.fn = "binary"
    /\ result' = binary_op(call.op, call.left, call.right, call.hook,
                           call.apfloat)
    /\ ret' = Returned(result')
    /\ pc' = "binary_op"
    /\ UNCHANGED <<call, dest>>

UnaryOp ==
    /\ pc = "call" /\ call.fn = "unary"
    /\ result' = unary_op(call.op, call.left.value, call.left.layout,
                          call.overflow_checks)
    /\ ret' = Returned(result')
    /\ pc' = "unary_op"
    /\ UNCHANGED <<call, dest>>

Next ==
    \/ binop_with_overflow
    \/ binop_ignore_overflow
    \/ BinaryOp
    \/ UnaryOp

Spec == Init /\ [][Next]_vars

\* The same program given only the calls a property is about (and unary_op's).
InitArith ==
    /\ SameTypeCalls({"Add", "Sub", "Mul"}) \/ UnaryCalls
    /\ Fresh
InitDiv ==
    /\ SameTypeCalls({"Div", "Rem"}) \/ MixedCalls({"Div", "Rem"}) \/ UnaryCalls
    /\ Fresh
InitShift ==
    /\ ShiftCalls \/ UnaryCalls
    /\ Fresh

SpecArith == InitArith /\ [][Next]_vars
SpecDiv == InitDiv /\ [][Next]_vars
SpecShift == InitShift /\ [][Next]_vars
(***************************************************************************)
(* The mathematics the properties are stated in: integers as two's-        *)
(* complement words of WideLimbs limbs, wide enough that no operation on   *)
(* two 128-bit values wraps.                                               *)
(***************************************************************************)
\* The integer a bit pattern of the layout's width stands for.
Value(b, layout) ==
    IF layout.signed THEN SExtW(LowW(b, layout.size), WideLimbs)
    ELSE ZExtW(LowW(b, layout.size), WideLimbs)

\* x lies in the representable range of the layout's width and signedness.
Representable(x, layout) ==
    IF layout.signed
    THEN /\ LeS(NegW(Pow2W(SizeBits(layout) - 1, WideLimbs)), x)
         /\ LtS(x, Pow2W(SizeBits(layout) - 1, WideLimbs))
    ELSE /\ ~IsNegW(x)
         /\ LtS(x, Pow2W(SizeBits(layout), WideLimbs))

\* x reduced modulo 2^width, as a bit pattern.
Encode(x, layout) == ZExtW(LowW(x, layout.size), Limbs)

\* The raw 128-bit value r as an integer.
Raw(r) == ZExtW(r, WideLimbs)

SignOf(x) == IF IsZeroW(x) THEN 0 ELSE IF IsNegW(x) THEN -1 ELSE 1

Exact(bin_op, a, b) ==
    CASE bin_op = "Add" -> AddW(a, b)
      [] bin_op = "Sub" -> SubW(a, b)
      [] bin_op = "Mul" -> MulW(a, b)

\* The call made was binary_int_op's: integer operands the hook declined.
IntCall ==
    /\ call.fn = "binary"
    /\ call.left.layout.sty = "Int" /\ call.right.layout.sty = "Int"
    /\ call.hook = HookNone
Returns == pc # "call"
SameTy == call.left.layout.ty = call.right.layout.ty
L == call.left.value.bits
R == call.right.value.bits
LLay == call.left.layout
RLay == call.right.layout

(***************************************************************************)
(* C1                                                                      *)
(***************************************************************************)
\* C1: for Add, Sub and Mul on two operands of one integer type, the returned
\* bits are the exact result modulo 2^w and the overflow flag is true exactly
\* when the exact result is not representable in (w, signedness).
C1_AddSubMulExact ==
    (Returns /\ IntCall /\ SameTy /\ call.op \in {"Add", "Sub", "Mul"}) =>
        LET exact == Exact(call.op, Value(L, LLay), Value(R, RLay))
        IN  result = Ok(Bits(Encode(exact, LLay), LLay.size),
                        ~Representable(exact, LLay))

\* A signed 128-bit multiplication that overflowed was evaluated.
C1_Witness ==
    /\ pc = "binop_with_overflow" /\ IntCall /\ call.op = "Mul"
    /\ LLay = IntLayout(TRUE, 128) /\ RLay = LLay
    /\ result.kind = "Ok" /\ result.oflo

(***************************************************************************)
(* C2                                                                      *)
(***************************************************************************)
ZeroDivisorError == IF call.op = "Div" THEN "DivisionByZero" ELSE "RemainderByZero"

\* C2 as stated: Div and Rem with a zero right operand yield the zero-divisor
\* failure whatever else holds of the operands, the type-identity check
\* included.
C2_ZeroDivisorBeforeAnyCheck ==
    (Returns /\ IntCall /\ call.op \in {"Div", "Rem"} /\ IsZeroW(R)) =>
        result = Err(ZeroDivisorError)

\* C2 as amended: Div and Rem with a zero right operand yield the zero-divisor
\* failure when both operands have the same type, whatever the width, the
\* signedness and the left operand; the type-identity check comes first, and
\* operands of two different types yield Unimplemented.
C2_ZeroDivisorAfterTypeCheck ==
    (Returns /\ IntCall /\ call.op \in {"Div", "Rem"} /\ IsZeroW(R)) =>
        result = IF SameTy THEN Err(ZeroDivisorError) ELSE Err("Unimplemented")

\* The minimum value of i128 was divided by zero.
C2_Witness ==
    /\ pc = "binary_op" /\ IntCall /\ call.op = "Div" /\ IsZeroW(R)
    /\ LLay = IntLayout(TRUE, 128) /\ SameTy /\ L = I128Min
    /\ result = Err("DivisionByZero")

(***************************************************************************)
(* C3                                                                      *)
(***************************************************************************)
\* C3: signed Div and Rem of the minimum value of the width by -1 return the
\* minimum value's bit pattern with the overflow flag set.
C3_MinByMinusOne ==
    (Returns /\ IntCall /\ SameTy /\ call.op \in {"Div", "Rem"}
       /\ LLay.signed
       /\ L = Pow2W(SizeBits(LLay) - 1, Limbs) /\ R = MaskW(SizeBits(LLay))) =>
        result = Ok(Bits(Pow2W(SizeBits(LLay) - 1, Limbs), LLay.size), TRUE)

\* The remainder of the minimum value of i128 by -1 was evaluated.
C3_Witness ==
    /\ pc = "binop_ignore_overflow" /\ IntCall /\ call.op = "Rem"
    /\ LLay = IntLayout(TRUE, 128) /\ SameTy
    /\ L = I128Min /\ R = MinusOne
    /\ result.kind = "Ok" /\ result.oflo

(***************************************************************************)
(* C4                                                                      *)
(***************************************************************************)
\* r >= w or r does not fit in 32 bits, for the raw right operand r.
ShiftTooFar ==
    \/ LeS(FromNat(SizeBits(LLay), WideLimbs), Raw(R))
    \/ LeS(Pow2W(32, WideLimbs), Raw(R))

\* C4: for Shl and Shr the overflow flag is true exactly when r >= w or r
\* does not fit in 32 bits; the shift amount applied is then r mod w, and r
\* itself otherwise.
C4_ShiftAmount ==
    (Returns /\ IntCall /\ call.op \in Shifts) =>
        /\ result.kind = "Ok"
        /\ result.oflo = ShiftTooFar
        /\ ShiftAmount(R, LLay).oflo = result.oflo
        /\ ShiftAmount(R, LLay).r =
              IF ShiftTooFar THEN ModSmall(R, SizeBits(LLay)) ELSE ToNat(R)

\* A 64-bit value was shifted by 2^32 + 1, which does not fit in 32 bits.
C4_Witness ==
    /\ pc = "binary_op" /\ IntCall /\ call.op = "Shl"
    /\ SizeBits(LLay) = 64
    /\ R = AddW(Pow2W(32, Limbs), FromNat(1, Limbs))
    /\ result.kind = "Ok" /\ result.oflo

(***************************************************************************)
(* C5                                                                      *)
(***************************************************************************)
IntUnaryCall == call.fn = "unary" /\ call.left.layout.sty = "Int"

\* C5: every raw-bit-pattern scalar binary_int_op or the integer branch of
\* unary_op returns carries the left operand's byte size and has
\* bits < 2^(8 * size).
C5_ResultFitsItsSize ==
    (Returns /\ (IntCall \/ IntUnaryCall)
       /\ result.kind = "Ok" /\ result.val.tag = "Bits") =>
        /\ result.val.size = LLay.size
        /\ LtS(Raw(result.val.bits), Pow2W(8 * result.val.size, WideLimbs))

\* The bitwise-or of two 16-bit patterns, a path without truncate, returned
\* all ones.
C5_Witness ==
    /\ pc = "binary_op" /\ IntCall /\ call.op = "BitOr"
    /\ LLay = IntLayout(FALSE, 16) /\ SameTy
    /\ result = Ok(Bits(MaskW(16), 2), FALSE)

(***************************************************************************)
(* C6                                                                      *)
(***************************************************************************)
FloatCall ==
    /\ call.fn = "binary"
    /\ call.left.layout.sty = "Float" /\ SameTy

\* C6 as stated: a bitwise or shift operator on two floats yields the
\* recoverable Unimplemented failure.
C6_FloatBitwiseUnimplemented ==
    (Returns /\ FloatCall /\ call.op \in Bitwise \cup Shifts) =>
        result = Err("Unimplemented")

\* C6 as amended: an operator outside the table of the float, boolean or
\* character evaluator ends in the fatal abort; only the integer evaluator
\* answers an operator outside its table with Unimplemented.
C6_UncoveredOperators ==
    (Returns /\ call.fn = "binary" /\ SameTy /\ call.hook = HookNone) =>
        CASE LLay.sty = "Float" /\ call.op \notin Comparisons \cup Arith ->
                result.kind = "Abort"
          [] LLay.sty = "Bool" /\ call.op \notin Comparisons \cup Bitwise ->
                result.kind = "Abort"
          [] LLay.sty = "Char" /\ call.op \notin Comparisons ->
                result.kind = "Abort"
          [] LLay.sty = "Int" /\ call.op \notin BinOps \ {"Offset"} ->
                result = Err("Unimplemented")
          [] OTHER -> result.kind \in {"Ok", "Err"}

\* BitAnd on two 64-bit floats aborted and nothing was written.
C6_Witness ==
    /\ pc = "binop_with_overflow" /\ FloatCall /\ call.op = "BitAnd"
    /\ LLay = FloatLayout(64)
    /\ result.kind = "Abort" /\ dest = Unwritten

(***************************************************************************)
(* C7                                                                      *)
(***************************************************************************)
\* C7: binop_with_overflow writes the pair (value, overflow) of binary_op's
\* answer, value first, binop_ignore_overflow writes the value alone, and
\* when binary_op fails both return its failure and write nothing; nothing
\* else writes the destination.
C7_WritersWriteOnce ==
    LET res == binary_op(call.op, call.left, call.right, call.hook,
                         call.apfloat)
    IN  CASE pc = "binop_with_overflow" ->
                /\ result = res
                /\ IF res.kind = "Ok"
                   THEN /\ dest = ScalarPair(res.val, from_bool(res.oflo))
                        /\ ret = "Ok"
                   ELSE dest = Unwritten /\ ret = res.err
          [] pc = "binop_ignore_overflow" ->
                /\ result = res
                /\ IF res.kind = "Ok"
                   THEN dest = Scalar(res.val) /\ ret = "Ok"
                   ELSE dest = Unwritten /\ ret = res.err
          [] OTHER -> dest = Unwritten

\* 127 + 1 on i8 was written as the pair (-128, true).
C7_Witness ==
    /\ pc = "binop_with_overflow" /\ IntCall /\ call.op = "Add"
    /\ LLay = IntLayout(TRUE, 8) /\ SameTy
    /\ L = FromNat(127, Limbs) /\ R = FromNat(1, Limbs)
    /\ dest = ScalarPair(Bits(FromNat(128, Limbs), 1), from_bool(TRUE))
    /\ ret = "Ok"

\* The failing side of C7: a division by zero returned its failure and wrote
\* nothing.
C7_WitnessFailure ==
    /\ pc = "binop_ignore_overflow" /\ result = Err("DivisionByZero")
    /\ ret = "DivisionByZero" /\ dest = Unwritten

(***************************************************************************)
(* C8                                                                      *)
(***************************************************************************)
\* The effective shift amount: r mod w (r itself when r < w).
EffectiveShift == ModSmall(R, SizeBits(LLay))

\* q = floor(x / 2^s): 0 <= x - q * 2^s < 2^s.
IsFloorShift(q, x, s) ==
    LET d == SubW(x, MulW(q, Pow2W(s, WideLimbs)))
    IN  ~IsNegW(d) /\ LtS(d, Pow2W(s, WideLimbs))

\* C8: with effective shift amount s and left value x, Shl returns
\* (x * 2^s) mod 2^w and Shr returns the w-bit encoding of floor(x / 2^s), x
\* read as signed or unsigned per the left layout; the right operand matters
\* only through s.
C8_ShiftResult ==
    (Returns /\ IntCall /\ call.op \in Shifts) =>
        LET x == Value(L, LLay)
            s == EffectiveShift
            bits == result.val.bits
        IN  /\ result.kind = "Ok"
            /\ result.val = Bits(Encode(Raw(bits), LLay), LLay.size)
            /\ IF call.op = "Shl"
               THEN bits = Encode(MulW(x, Pow2W(s, WideLimbs)), LLay)
               ELSE IsFloorShift(Value(bits, LLay), x, s)

\* A negative 32-bit value shifted right by one stayed negative.
C8_Witness ==
    /\ pc = "binop_ignore_overflow" /\ IntCall /\ call.op = "Shr"
    /\ LLay = IntLayout(TRUE, 32)
    /\ L = Pow2W(31, Limbs) /\ R = FromNat(1, Limbs)
    /\ result = Ok(Bits(AddW(Pow2W(31, Limbs), Pow2W(30, Limbs)), 4), FALSE)

(***************************************************************************)
(* C9                                                                      *)
(***************************************************************************)
MinByMinusOne ==
    /\ LLay.signed
    /\ L = Pow2W(SizeBits(LLay) - 1, Limbs) /\ R = MaskW(SizeBits(LLay))

\* rem is what is left of a after a division by b truncated toward zero:
\* smaller than b in magnitude, and zero or of a's sign.
IsRemainder(rem, a, b) ==
    /\ LtS(AbsW(rem), AbsW(b))
    /\ SignOf(rem) \in {0, SignOf(a)}

\* C9: Div and Rem with a nonzero right operand of the same type return the
\* quotient truncated toward zero and the remainder with the dividend's
\* sign, with the overflow flag false, except for the minimum value by -1.
C9_DivRemResult ==
    (Returns /\ IntCall /\ SameTy /\ call.op \in {"Div", "Rem"}
       /\ ~IsZeroW(R) /\ ~MinByMinusOne) =>
        LET a == Value(L, LLay)
            b == Value(R, RLay)
            v == Value(result.val.bits, LLay)
        IN  /\ result.kind = "Ok" /\ ~result.oflo
            /\ result.val = Bits(Encode(Raw(result.val.bits), LLay), LLay.size)
            /\ IF call.op = "Div"
               THEN IsRemainder(SubW(a, MulW(v, b)), a, b)
               ELSE /\ IsRemainder(v, a, b)
                    /\ LET q == SExtW(DivS(LowW(a, Limbs + 1),
                                           LowW(b, Limbs + 1)), WideLimbs)
                       IN  a = AddW(MulW(q, b), v)

\* -127 % -2 on i8 returned -1.
C9_Witness ==
    /\ pc = "binary_op" /\ IntCall /\ call.op = "Rem"
    /\ LLay = IntLayout(TRUE, 8) /\ SameTy
    /\ L = FromNat(129, Limbs) /\ R = FromNat(254, Limbs)
    /\ result = Ok(Bits(FromNat(255, Limbs), 1), FALSE)

(***************************************************************************)
(* C10                                                                     *)
(***************************************************************************)
\* C10: on an integer operand v of width w, Not returns 2^w - 1 - v; Neg on
\* a signed layout returns (2^w - v) mod 2^w for every v, the minimum value
\* included, without aborting; Neg on an unsigned layout aborts.
C10_UnaryResult ==
    (Returns /\ IntUnaryCall) =>
        CASE call.op = "Not" ->
                result = Ok(Bits(SubW(MaskW(SizeBits(LLay)), L), LLay.size), FALSE)
          [] call.op = "Neg" /\ LLay.signed ->
                result = Ok(Bits(Encode(SubW(Pow2W(SizeBits(LLay), WideLimbs),
                                             Raw(L)), LLay), LLay.size), FALSE)
          [] OTHER -> result.kind = "Abort"

=============================================================================
